---- MODULE Spec2Model ----
(***************************************************************************)
(* The BarcodeScanner component (src/unnamed/part_001, lines 215-916) as a *)
(* state machine: one mounted instance, its refs and React state, the      *)
(* video surface it renders, the camera streams it was granted, and every  *)
(* asynchronous continuation of initializeScanner (a "run") with the       *)
(* timers that start runs, poll the surface and start the decode loop.     *)
(*                                                                         *)
(* Each action is one JavaScript task: the synchronous code between two    *)
(* awaits, timer firings or events.  State setters of an unmounted         *)
(* component are dropped, as React drops them.                             *)
(***************************************************************************)
EXTENDS Integers, Sequences, FiniteSets, TLC

\* ---- bounds of the model
MaxRetries == 2            \* retry clicks explored
MaxAttempts == 3           \* decode callbacks explored
MaxPolls == 2              \* failed readiness polls explored

\* ---- program constants
NumProfiles == 4           \* constraintOptions.length
NumStrategies == 3         \* playStrategies.length
HelpThreshold == 100       \* "Trouble scanning?" overlay, scanAttempts > 100
HintThreshold == 50        \* "Try: Move closer/further" hint, scanAttempts > 50
LogPeriod == 100           \* "Scanning active" debug line, scanAttempts % 100 === 0

Values == {"123", "456"}   \* texts the decoder can report
NoResult == "none"         \* a callback with no result: nothing found in the frame
DecodeFault == "fault"     \* a callback with no result: the decoder reports a fault
Runs == 1 .. (MaxRetries + 1)   \* every run is started by the mount timer or a retry timer
NoStream == 0              \* null; the stream granted to run r is named r

VARIABLES
  \* environment
  secureContext,     \* window.isSecureContext
  hasMediaDevices,   \* navigator.mediaDevices && navigator.mediaDevices.getUserMedia
  syncFlush,         \* TRUE: a setState outside an event handler renders at once (legacy root)
  longRun,           \* TRUE: a decoder that finds nothing is followed past the hint thresholds
  logged,            \* TRUE: the "Scanning active" lines of the debug text are recorded
  playTimers,        \* the pending play-retry timers of components/BarcodeScanner.tsx (part_001 sets none)
  httpReq, httpRes,  \* the HTTP function: the request being served and context.res
  \* refs
  isMounted, isInitialized, retryCount, streamRef, codeReaderRef,
  \* React state
  isScanning, error, hasPermission, scannedCodes, scanAttempts, videoReady, cameraStatus,
  \* the decoder held in codeReaderRef: decodeFromVideoDevice calls since its creation
  decodeLoops,
  \* camera: granted streams whose tracks are not stopped
  liveStreams,
  \* the <video> surface
  videoSrc, videoDims, videoPaused,
  \* pending timers
  initTimer, retryTimers, scanTimers,
  \* the runs of initializeScanner
  run,
  \* App
  showScanner, showResult, scanResults,
  \* history: the distinct texts delivered by the decoder, in the order each was
  \* first delivered, and whether a code was ever removed by the user
  firstSeen, removedAny,
  \* history: the calls of the decode callback
  callbacks,
  \* history: the 500 ms readiness polls that found the surface not ready
  pollsFailed,
  \* history: the runs started before the last cleanup() are 1 .. staleUpTo
  staleUpTo,
  \* the scanAttempts of the render whose functions are running: closed over by
  \* each pending retry timer, each run, each pending start-scanning timer and
  \* each decode loop's callback (the timers in the order they were set)
  retryClosures, runClosure, scanClosures, loopClosures,
  \* history: the "Scanning active" lines appended to the debug text
  scanLines

envVars == <<secureContext, hasMediaDevices, syncFlush, longRun, logged, playTimers,
            httpReq, httpRes>>
refVars == <<isMounted, isInitialized, retryCount, streamRef, codeReaderRef>>
stateVars == <<isScanning, error, hasPermission, scannedCodes, scanAttempts, videoReady, cameraStatus>>
videoVars == <<videoSrc, videoDims, videoPaused>>
timerVars == <<initTimer, retryTimers, scanTimers>>
appVars == <<showScanner, showResult, scanResults>>
histVars == <<firstSeen, removedAny, callbacks, pollsFailed>>

logVars == <<retryClosures, runClosure, scanClosures, loopClosures, scanLines>>

vars == <<envVars, refVars, stateVars, decodeLoops, liveStreams, videoVars, timerVars, run,
          appVars, histVars, staleUpTo, logVars>>

\* A run: where its continuation stands, the loop index i of the constraint
\* loop and the index of the play strategy awaited.  The locals of a run that
\* has returned are dead and are cleared.
\* no request is being served; context.res is not set
NoRequest == [method |-> "none"]
NoResponse == [sets |-> 0]

IdleRun == [pc |-> "idle", i |-> 0, strat |-> 0]
DoneRun == [pc |-> "done", i |-> 0, strat |-> 0]
ReleasedRun == [pc |-> "released", i |-> 0, strat |-> 0]

InitWith(long, log) ==
  /\ secureContext \in BOOLEAN /\ hasMediaDevices \in BOOLEAN /\ syncFlush \in BOOLEAN
  /\ longRun = long /\ logged = log /\ playTimers = 0
  /\ httpReq = NoRequest /\ httpRes = NoResponse
  /\ isMounted = TRUE /\ isInitialized = FALSE /\ retryCount = 0
  /\ streamRef = NoStream /\ codeReaderRef = FALSE
  /\ isScanning = FALSE /\ error = "" /\ hasPermission = "null"
  /\ scannedCodes = <<>> /\ scanAttempts = 0 /\ videoReady = FALSE
  /\ cameraStatus = "initializing"
  /\ decodeLoops = 0 /\ liveStreams = {}
  /\ videoSrc = NoStream /\ videoDims = FALSE /\ videoPaused = TRUE
  /\ initTimer = TRUE /\ retryTimers = 0 /\ scanTimers = 0
  /\ run = [r \in Runs |-> IdleRun]
  /\ showScanner = TRUE /\ showResult = FALSE /\ scanResults = <<>>
  /\ firstSeen = <<>> /\ removedAny = FALSE /\ callbacks = 0 /\ pollsFailed = 0 /\ staleUpTo = 0
  /\ retryClosures = <<>> /\ runClosure = [r \in Runs |-> 0]
  /\ scanClosures = <<>> /\ loopClosures = <<>> /\ scanLines = 0

Init == InitWith(FALSE, FALSE)

\* ---- helpers

\* videoRef.current: the <video> is rendered only under {hasPermission && ...}
VideoRefPresent == hasPermission = "true"

\* a React state setter: dropped once the component is unmounted
SetState(new, old) == IF isMounted THEN new ELSE old

InFlight(p) == p.pc \in {"requesting", "waitVideo", "playing", "polling"}

Started == {r \in Runs : run[r].pc # "idle"}
NextRun == Cardinality(Started) + 1

\* the surface shows a stream that delivers frames
VideoHasLiveSource == videoSrc # NoStream /\ videoSrc \in liveStreams

\* video.videoWidth > 0 && video.videoHeight > 0 && !video.paused
VideoIsReady(dims, paused) == dims /\ ~paused

\* the hint under the frame and the "Trouble scanning?" overlay are rendered
HintShown == scanAttempts > HintThreshold /\ Len(scannedCodes) = 0
HelpShown == scanAttempts > HelpThreshold /\ Len(scannedCodes) = 0 /\ videoReady

\* the set of retry buttons rendered
RetryVisible ==
  \/ hasPermission = "false"
  \/ hasPermission = "true" /\ ~videoReady /\ cameraStatus = "loading"
  \/ error # ""
  \/ HelpShown

SessionState ==
  IF ~isMounted THEN "Disposed"
  ELSE IF cameraStatus = "error" THEN "Error"
  ELSE IF cameraStatus = "ready" THEN (IF isScanning THEN "Scanning" ELSE "Ready")
  ELSE IF cameraStatus = "loading" THEN "Loading"
  ELSE IF cameraStatus = "granted" THEN "Granted"
  ELSE IF cameraStatus = "requesting" THEN "Requesting"
  ELSE "Idle"

\* a cleanup that also empties the result list
CleanupClearingCodes(mounted) ==
  /\ isInitialized' = FALSE
  /\ isScanning' = IF mounted THEN FALSE ELSE isScanning
  /\ videoReady' = IF mounted THEN FALSE ELSE videoReady
  /\ cameraStatus' = IF mounted THEN "initializing" ELSE cameraStatus
  /\ codeReaderRef' = FALSE
  /\ decodeLoops' = 0
  /\ liveStreams' = liveStreams \ {streamRef}
  /\ streamRef' = NoStream
  /\ IF VideoRefPresent
       THEN videoSrc' = NoStream /\ videoDims' = FALSE /\ videoPaused' = TRUE
       ELSE UNCHANGED videoVars
  /\ staleUpTo' = Cardinality(Started)
  /\ scannedCodes' = IF mounted THEN <<>> ELSE scannedCodes
  /\ UNCHANGED <<error, hasPermission, scanAttempts, run>>

\* a cleanup that drops the stream without stopping its tracks
CleanupNotStopping(mounted) ==
  /\ isInitialized' = FALSE
  /\ isScanning' = IF mounted THEN FALSE ELSE isScanning
  /\ videoReady' = IF mounted THEN FALSE ELSE videoReady
  /\ cameraStatus' = IF mounted THEN "initializing" ELSE cameraStatus
  /\ codeReaderRef' = FALSE
  /\ decodeLoops' = 0
  /\ liveStreams' = liveStreams
  /\ streamRef' = NoStream
  /\ IF VideoRefPresent
       THEN videoSrc' = NoStream /\ videoDims' = FALSE /\ videoPaused' = TRUE
       ELSE UNCHANGED videoVars
  /\ staleUpTo' = Cardinality(Started)
  /\ UNCHANGED <<error, hasPermission, scannedCodes, scanAttempts, run>>

\* a cleanup that leaves the scanning and video-ready flags as they are
CleanupKeepingFlags(mounted) ==
  /\ isInitialized' = FALSE
  /\ UNCHANGED <<isScanning, videoReady>>
  /\ cameraStatus' = IF mounted THEN "initializing" ELSE cameraStatus
  /\ codeReaderRef' = FALSE
  /\ decodeLoops' = 0
  /\ liveStreams' = liveStreams \ {streamRef}
  /\ streamRef' = NoStream
  /\ IF VideoRefPresent
       THEN videoSrc' = NoStream /\ videoDims' = FALSE /\ videoPaused' = TRUE
       ELSE UNCHANGED videoVars
  /\ staleUpTo' = Cardinality(Started)
  /\ UNCHANGED <<error, hasPermission, scannedCodes, scanAttempts, run>>

\* a cleanup that also sets the attempt counter back to zero
CleanupResettingAttempts(mounted) ==
  /\ isInitialized' = FALSE
  /\ isScanning' = IF mounted THEN FALSE ELSE isScanning
  /\ videoReady' = IF mounted THEN FALSE ELSE videoReady
  /\ cameraStatus' = IF mounted THEN "initializing" ELSE cameraStatus
  /\ codeReaderRef' = FALSE
  /\ decodeLoops' = 0
  /\ liveStreams' = liveStreams \ {streamRef}
  /\ streamRef' = NoStream
  /\ IF VideoRefPresent
       THEN videoSrc' = NoStream /\ videoDims' = FALSE /\ videoPaused' = TRUE
       ELSE UNCHANGED videoVars
  /\ staleUpTo' = Cardinality(Started)
  /\ scanAttempts' = IF mounted THEN 0 ELSE scanAttempts
  /\ UNCHANGED <<error, hasPermission, scannedCodes, run>>

\* what cleanup() reads and writes
CleanupFields ==
  [isInitialized |-> isInitialized, isScanning |-> isScanning, videoReady |-> videoReady,
   cameraStatus |-> cameraStatus, codeReaderRef |-> codeReaderRef, decodeLoops |-> decodeLoops,
   liveStreams |-> liveStreams, streamRef |-> streamRef,
   videoSrc |-> videoSrc, videoDims |-> videoDims, videoPaused |-> videoPaused,
   stopped |-> {}, reset |-> FALSE]

\* cleanup() run on the fields s (lines 558-587); the setters are dropped once
\* the component is unmounted.  stopped: the streams whose tracks this run
\* stops; reset: whether this run calls reset() on a decoder.
CleanupOf(s, mounted) ==
  [s EXCEPT !.isInitialized = FALSE,
            !.isScanning = IF mounted THEN FALSE ELSE @,
            !.videoReady = IF mounted THEN FALSE ELSE @,
            !.cameraStatus = IF mounted THEN "initializing" ELSE @,
            !.reset = s.codeReaderRef,
            !.codeReaderRef = FALSE,
            !.decodeLoops = 0,
            !.stopped = IF s.streamRef # NoStream THEN {s.streamRef} ELSE {},
            !.liveStreams = @ \ {s.streamRef},
            !.streamRef = NoStream,
            !.videoSrc = IF VideoRefPresent THEN NoStream ELSE @,
            !.videoDims = IF VideoRefPresent THEN FALSE ELSE @,
            !.videoPaused = IF VideoRefPresent THEN TRUE ELSE @]

\* a cleanup that stops the tracks and keeps the stream in streamRef
CleanupKeepingRef(mounted) ==
  /\ isInitialized' = FALSE
  /\ isScanning' = IF mounted THEN FALSE ELSE isScanning
  /\ videoReady' = IF mounted THEN FALSE ELSE videoReady
  /\ cameraStatus' = IF mounted THEN "initializing" ELSE cameraStatus
  /\ codeReaderRef' = FALSE
  /\ decodeLoops' = 0
  /\ liveStreams' = liveStreams \ {streamRef}
  /\ streamRef' = streamRef
  /\ IF VideoRefPresent
       THEN videoSrc' = NoStream /\ videoDims' = FALSE /\ videoPaused' = TRUE
       ELSE UNCHANGED videoVars
  /\ staleUpTo' = Cardinality(Started)
  /\ UNCHANGED <<error, hasPermission, scannedCodes, scanAttempts, run>>

\* ---- cleanup()
\* mounted: whether the state setters take effect (FALSE in the unmount effect)
Cleanup(mounted) ==
  /\ isInitialized' = FALSE
  /\ isScanning' = IF mounted THEN FALSE ELSE isScanning
  /\ videoReady' = IF mounted THEN FALSE ELSE videoReady
  /\ cameraStatus' = IF mounted THEN "initializing" ELSE cameraStatus
  /\ codeReaderRef' = FALSE
  /\ decodeLoops' = 0
  /\ liveStreams' = liveStreams \ {streamRef}
  /\ streamRef' = NoStream
  /\ IF VideoRefPresent
       THEN videoSrc' = NoStream /\ videoDims' = FALSE /\ videoPaused' = TRUE
       ELSE UNCHANGED videoVars
  /\ staleUpTo' = Cardinality(Started)
  /\ UNCHANGED <<error, hasPermission, scannedCodes, scanAttempts, run>>

\* ---- the catch block of initializeScanner (lines 494-504)
CatchEffect(msg) ==
  IF ~isMounted
    THEN UNCHANGED <<isInitialized, cameraStatus, hasPermission, error, videoVars>>
    ELSE /\ isInitialized' = FALSE
         /\ cameraStatus' = "error"
         /\ hasPermission' = "false"
         /\ error' = msg
         \* the <video> is no longer rendered
         /\ videoSrc' = NoStream /\ videoDims' = FALSE /\ videoPaused' = TRUE

\* run r throws into the catch block and returns
CatchBlock(r, msg) ==
  /\ run' = [run EXCEPT ![r] = DoneRun]
  /\ CatchEffect(msg)

\* a loop that skips a profile
NextProfileSkipping(i) == i + 2

\* i++ of the constraint loop
NextProfile(i) == i + 1

\* an initializeScanner that requests the camera without the environment checks
InitializeScannerUnchecked ==
  IF isInitialized \/ ~isMounted
    THEN UNCHANGED <<envVars, refVars, stateVars, decodeLoops, liveStreams, videoVars, run,
                     scanTimers, appVars, histVars, staleUpTo>>
    ELSE LET r == NextRun IN
      /\ r \in Runs
      /\ isInitialized' = TRUE
      /\ error' = ""
      /\ cameraStatus' = "requesting"
      /\ run' = [run EXCEPT ![r] = [pc |-> "requesting", i |-> 1, strat |-> 0]]
      /\ UNCHANGED <<hasPermission, videoVars>>
      /\ UNCHANGED <<envVars, isMounted, retryCount, streamRef, codeReaderRef, isScanning,
                     scannedCodes, scanAttempts, videoReady, decodeLoops, liveStreams,
                     scanTimers, appVars, histVars, staleUpTo>>

\* ---- initializeScanner(), up to its first await
InitializeScanner ==
  IF isInitialized \/ ~isMounted
    THEN UNCHANGED <<envVars, refVars, stateVars, decodeLoops, liveStreams, videoVars, run,
                     scanTimers, appVars, histVars, staleUpTo>>
    ELSE LET r == NextRun IN
      /\ r \in Runs
      /\ IF ~secureContext \/ ~hasMediaDevices
           THEN /\ CatchBlock(r, IF ~secureContext THEN "https" ELSE "noapi")
           ELSE /\ isInitialized' = TRUE
                /\ error' = ""
                /\ cameraStatus' = "requesting"
                /\ run' = [run EXCEPT ![r] = [pc |-> "requesting", i |-> 1, strat |-> 0]]
                /\ UNCHANGED <<hasPermission, videoVars>>
      /\ UNCHANGED <<envVars, isMounted, retryCount, streamRef, codeReaderRef, isScanning,
                     scannedCodes, scanAttempts, videoReady, decodeLoops, liveStreams,
                     scanTimers, appVars, histVars, staleUpTo>>

\* the 100 ms timer of the mount effect
InitTimerFire ==
  /\ initTimer
  /\ initTimer' = FALSE
  /\ UNCHANGED retryTimers
  /\ InitializeScanner
  /\ UNCHANGED logVars

\* the 1000 ms timer of retryScanning
RetryTimerFire ==
  /\ retryTimers > 0
  /\ retryTimers' = retryTimers - 1
  /\ UNCHANGED initTimer
  /\ IF isMounted THEN InitializeScanner
     ELSE UNCHANGED <<envVars, refVars, stateVars, decodeLoops, liveStreams, videoVars, run,
                      scanTimers, appVars, histVars, staleUpTo>>
  /\ retryClosures' = IF logged THEN Tail(retryClosures) ELSE retryClosures
  /\ runClosure' = IF logged /\ isMounted /\ ~isInitialized /\ NextRun \in Runs
                     THEN [runClosure EXCEPT ![NextRun] = Head(retryClosures)]
                     ELSE runClosure
  /\ UNCHANGED <<scanClosures, loopClosures, scanLines>>

\* a retryScanning that schedules the restart without calling cleanup()
RetryScanningWithoutStop ==
  /\ isMounted /\ RetryVisible
  /\ retryCount < MaxRetries
  /\ retryCount' = retryCount + 1
  /\ retryTimers' = retryTimers + 1
  /\ UNCHANGED <<envVars, isMounted, isInitialized, streamRef, codeReaderRef, stateVars,
                 decodeLoops, liveStreams, videoVars, run, initTimer, scanTimers, appVars,
                 histVars, staleUpTo>>
  /\ retryClosures' = IF logged THEN Append(retryClosures, scanAttempts) ELSE retryClosures
  /\ UNCHANGED <<runClosure, scanClosures, loopClosures, scanLines>>

\* retryScanning(): a click on a rendered retry button
RetryScanning ==
  /\ isMounted /\ RetryVisible
  /\ retryCount < MaxRetries
  /\ retryCount' = retryCount + 1
  /\ Cleanup(TRUE)
  /\ retryTimers' = retryTimers + 1
  /\ UNCHANGED <<envVars, isMounted, initTimer, scanTimers, appVars, histVars>>
  /\ retryClosures' = IF logged THEN Append(retryClosures, scanAttempts) ELSE retryClosures
  /\ loopClosures' = <<>>
  /\ UNCHANGED <<runClosure, scanClosures, scanLines>>

\* the message of the error that rejects the request for profile i
CameraError(i) == <<"camera1", "camera2", "camera3", "camera4">>[i]

\* lastError after the loop, when its last request was the one for profile i:
\* every rejection overwrites it
ThrownError(i) == CameraError(i)

\* ---- the constraint loop: getUserMedia(constraintOptions[i]) of run r settles

\* rejected: record the error and go on to the next profile, or throw after the last
RequestFails(r) ==
  /\ run[r].pc = "requesting"
  /\ IF run[r].i < NumProfiles
       THEN /\ run' = [run EXCEPT ![r].i = NextProfile(run[r].i)]
            /\ UNCHANGED <<isInitialized, cameraStatus, hasPermission, error, videoVars>>
       ELSE CatchBlock(r, ThrownError(run[r].i))
  /\ UNCHANGED <<envVars, isMounted, retryCount, streamRef, codeReaderRef, isScanning,
                 scannedCodes, scanAttempts, videoReady, decodeLoops, liveStreams, timerVars,
                 appVars, histVars, staleUpTo>>
  /\ UNCHANGED logVars

\* a late stream that is dropped with its tracks running
LateStreamDropped(r) ==
  /\ run' = [run EXCEPT ![r] = ReleasedRun]
  /\ liveStreams' = liveStreams \cup {r}
  /\ UNCHANGED <<streamRef, cameraStatus, hasPermission, videoVars>>

\* line 342: a stream that arrives after the unmount is stopped and dropped
LateStreamReleased(r) ==
  /\ run' = [run EXCEPT ![r] = ReleasedRun]
  /\ UNCHANGED <<streamRef, liveStreams, cameraStatus, hasPermission, videoVars>>

\* lines 347-365: the stream is stored and, when the <video> exists, bound to it
StreamStored(r) ==
  /\ streamRef' = r
  /\ liveStreams' = liveStreams \cup {r}
  /\ hasPermission' = "true"
  /\ IF syncFlush \/ VideoRefPresent
       THEN /\ cameraStatus' = "loading"
            /\ videoSrc' = r /\ videoDims' = FALSE /\ videoPaused' = TRUE
            /\ run' = [run EXCEPT ![r] = [pc |-> "waitVideo", i |-> 0, strat |-> 0]]
       ELSE /\ cameraStatus' = "granted"
            /\ UNCHANGED videoVars
            /\ run' = [run EXCEPT ![r] = DoneRun]

\* resolved: break out of the loop with the stream
RequestSucceeds(r) ==
  /\ run[r].pc = "requesting"
  /\ IF ~isMounted THEN LateStreamReleased(r) ELSE StreamStored(r)
  /\ UNCHANGED <<envVars, isMounted, isInitialized, retryCount, codeReaderRef, isScanning,
                 error, scannedCodes, scanAttempts, videoReady, decodeLoops, timerVars,
                 appVars, histVars, staleUpTo>>
  /\ UNCHANGED logVars

\* a check that accepts a surface with dimensions whether or not it plays
CheckVideoReadyDimsOnly(r, dims, paused) ==
  IF dims
    THEN /\ cameraStatus' = SetState("ready", cameraStatus)
         /\ videoReady' = SetState(TRUE, videoReady)
         /\ scanTimers' = scanTimers + 1
         /\ run' = [run EXCEPT ![r] = DoneRun]
    ELSE /\ run' = [run EXCEPT ![r] = [pc |-> "polling", i |-> 0, strat |-> 0]]
         /\ UNCHANGED <<cameraStatus, videoReady, scanTimers>>

\* ---- checkVideoReady(), for run r seeing the surface with (dims, paused)
CheckVideoReady(r, dims, paused) ==
  IF VideoIsReady(dims, paused)
    THEN /\ cameraStatus' = SetState("ready", cameraStatus)
         /\ videoReady' = SetState(TRUE, videoReady)
         /\ scanTimers' = scanTimers + 1
         /\ run' = [run EXCEPT ![r] = DoneRun]
    ELSE /\ run' = [run EXCEPT ![r] = [pc |-> "polling", i |-> 0, strat |-> 0]]
         /\ UNCHANGED <<cameraStatus, videoReady, scanTimers>>

\* line 471 and the first checkVideoReady(), after the play strategies
AfterPlay(r, dims, paused) ==
  IF ~isMounted
    THEN /\ run' = [run EXCEPT ![r] = DoneRun]
         /\ UNCHANGED <<cameraStatus, videoReady, scanTimers>>
    ELSE CheckVideoReady(r, dims, paused)

\* ---- the readiness promise of lines 376-430, awaited by the runs at waitVideo.
\* Its listeners sit on the one <video>, so an event settles every waiting run.
Waiting == {r \in Runs : run[r].pc = "waitVideo"}

\* loadedmetadata / loadeddata / canplay: the bound stream delivers its first
\* frame and the dimensions are known; each waiting run passes line 432 and
\* starts the first play strategy
VideoLoadsData ==
  /\ VideoHasLiveSource /\ ~videoDims
  /\ videoDims' = TRUE
  /\ run' = [r \in Runs |->
               IF r \notin Waiting THEN run[r]
               ELSE IF isMounted THEN [pc |-> "playing", i |-> 0, strat |-> 1]
               ELSE DoneRun]
  /\ UNCHANGED <<envVars, refVars, stateVars, decodeLoops, liveStreams, videoSrc, videoPaused,
                 timerVars, appVars, histVars, staleUpTo>>
  /\ UNCHANGED logVars

\* error / abort / stalled: every waiting run rejects and runs the catch block
VideoErrorEvent ==
  /\ Waiting # {}
  /\ run' = [r \in Runs |-> IF r \in Waiting THEN DoneRun ELSE run[r]]
  /\ CatchEffect("video")
  /\ UNCHANGED <<envVars, isMounted, retryCount, streamRef, codeReaderRef, isScanning,
                 scannedCodes, scanAttempts, videoReady, decodeLoops, liveStreams, timerVars,
                 appVars, histVars, staleUpTo>>
  /\ UNCHANGED logVars

\* the 8 s timeout of run r: success when the surface has data (readyState >= 2
\* or videoWidth > 0), else the promise rejects
VideoWaitTimeout(r) ==
  /\ run[r].pc = "waitVideo"
  /\ IF videoDims
       THEN /\ run' = [run EXCEPT ![r] = IF isMounted
                                           THEN [pc |-> "playing", i |-> 0, strat |-> 1]
                                           ELSE DoneRun]
            /\ UNCHANGED <<isInitialized, cameraStatus, hasPermission, error, videoVars>>
       ELSE CatchBlock(r, "video")
  /\ UNCHANGED <<envVars, isMounted, retryCount, streamRef, codeReaderRef, isScanning,
                 scannedCodes, scanAttempts, videoReady, decodeLoops, liveStreams, timerVars,
                 appVars, histVars, staleUpTo>>
  /\ UNCHANGED logVars

\* the start-scanning timer set by run r in this step closes over what r does
ScanTimerCloses(r) ==
  /\ scanClosures' = IF logged /\ scanTimers' > scanTimers
                       THEN Append(scanClosures, runClosure[r])
                       ELSE scanClosures
  /\ UNCHANGED <<retryClosures, runClosure, loopClosures, scanLines>>

\* playStrategies[strat] resolves: the loaded surface is playing
PlaySucceeds(r) ==
  /\ run[r].pc = "playing"
  /\ VideoHasLiveSource /\ videoDims
  /\ videoDims' = videoDims /\ videoPaused' = FALSE
  /\ AfterPlay(r, TRUE, FALSE)
  /\ UNCHANGED <<envVars, refVars, isScanning, error, hasPermission, scannedCodes,
                 scanAttempts, decodeLoops, liveStreams, videoSrc, initTimer, retryTimers,
                 appVars, histVars, staleUpTo>>
  /\ ScanTimerCloses(r)

\* playStrategies[strat] rejects: the next one is tried (the third calls
\* video.load() first); after the last the code continues anyway
PlayFails(r) ==
  /\ run[r].pc = "playing"
  /\ IF run[r].strat < NumStrategies
       THEN /\ run' = [run EXCEPT ![r].strat = @ + 1]
            /\ IF run[r].strat + 1 = NumStrategies
                 THEN videoDims' = FALSE /\ videoPaused' = TRUE
                 ELSE UNCHANGED <<videoDims, videoPaused>>
            /\ UNCHANGED <<cameraStatus, videoReady, scanTimers>>
       ELSE /\ AfterPlay(r, videoDims, videoPaused)
            /\ UNCHANGED <<videoDims, videoPaused>>
  /\ UNCHANGED <<envVars, refVars, isScanning, error, hasPermission, scannedCodes,
                 scanAttempts, decodeLoops, liveStreams, videoSrc, initTimer, retryTimers,
                 appVars, histVars, staleUpTo>>
  /\ ScanTimerCloses(r)

\* the 500 ms timer of checkVideoReady: the check runs again and, when the
\* surface is still not ready, sets the same timer again, which leaves the
\* program where it was; with counted, such a poll is recorded in pollsFailed
PollTimerFire(r, counted) ==
  /\ run[r].pc = "polling"
  /\ CheckVideoReady(r, videoDims, videoPaused)
  /\ IF counted /\ ~VideoIsReady(videoDims, videoPaused)
       THEN pollsFailed < MaxPolls /\ pollsFailed' = pollsFailed + 1
       ELSE pollsFailed' = pollsFailed
  /\ UNCHANGED <<envVars, refVars, isScanning, error, hasPermission, scannedCodes,
                 scanAttempts, decodeLoops, liveStreams, videoVars, initTimer, retryTimers,
                 appVars, firstSeen, removedAny, callbacks, staleUpTo>>
  /\ ScanTimerCloses(r)

\* ---- startBarcodeScanning()
StartBarcodeScanning ==
  /\ codeReaderRef' = (codeReaderRef \/ isMounted)
  /\ IF ~codeReaderRef' \/ ~VideoRefPresent \/ ~isMounted
       THEN UNCHANGED <<isScanning, decodeLoops>>
       ELSE /\ isScanning' = TRUE
            /\ decodeLoops' = decodeLoops + 1

\* the 1000 ms timer set by checkVideoReady
ScanTimerFire ==
  /\ scanTimers > 0
  /\ scanTimers' = scanTimers - 1
  /\ IF isMounted THEN StartBarcodeScanning
     ELSE UNCHANGED <<codeReaderRef, isScanning, decodeLoops>>
  /\ UNCHANGED <<envVars, isMounted, isInitialized, retryCount, streamRef, error,
                 hasPermission, scannedCodes, scanAttempts, videoReady, cameraStatus,
                 liveStreams, videoVars, initTimer, retryTimers, run, appVars, histVars,
                 staleUpTo>>
  /\ scanClosures' = IF logged THEN Tail(scanClosures) ELSE scanClosures
  /\ loopClosures' = IF logged /\ decodeLoops' > decodeLoops
                       THEN Append(loopClosures, Head(scanClosures))
                       ELSE loopClosures
  /\ UNCHANGED <<retryClosures, runClosure, scanLines>>

\* prev.includes(v)
Includes(prev, v) == \E k \in 1 .. Len(prev) : prev[k] = v

\* an updater without the includes test
AddScannedCodeAlways(prev, v) == Append(prev, v)

\* the updater of setScannedCodes in the decode callback
AddScannedCode(prev, v) == IF ~Includes(prev, v) THEN Append(prev, v) ELSE prev

\* a counter set from the value the callback closed over when the loop started
NextAttemptFromClosure(prev) == 1

\* line 527: setScanAttempts(prev => prev + 1)
NextAttempt(prev) == prev + 1

\* a callback that drops the list when it is called without a result
CallbackCodesClearing(prev, v) == IF v \in Values THEN prev ELSE <<>>

\* lines 529-546: a result goes through the updater; without a result (nothing
\* found, or a fault) only the debug text is touched
CallbackCodes(prev, v) == IF v \in Values THEN AddScannedCode(prev, v) ELSE prev

\* the callback given to decodeFromVideoDevice, called with result v or, with
\* the error argument set, without one
\* the scanAttempts seen by the callbacks of the running loops
CallbackClosures ==
  IF logged THEN {loopClosures[k] : k \in 1 .. Len(loopClosures)} ELSE {0}

\* a callback that resets the decoder once the hint threshold is passed
DecodeCallbackStoppingAtHint(v) ==
  /\ decodeLoops > 0
  /\ \/ callbacks < MaxAttempts
     \/ longRun /\ v \notin Values /\ firstSeen = <<>> /\ callbacks < HelpThreshold + 1
  /\ callbacks' = callbacks + 1
  /\ IF ~isMounted
       THEN UNCHANGED <<scanAttempts, scannedCodes>>
       ELSE /\ scanAttempts' = NextAttempt(scanAttempts)
            /\ scannedCodes' = CallbackCodes(scannedCodes, v)
  /\ firstSeen' = IF v \notin Values \/ v \in {firstSeen[k] : k \in DOMAIN firstSeen}
                    THEN firstSeen ELSE firstSeen \o <<v>>
  /\ decodeLoops' = IF scanAttempts + 1 > HintThreshold THEN 0 ELSE decodeLoops
  /\ UNCHANGED <<envVars, refVars, isScanning, error, hasPermission, videoReady, cameraStatus,
                 liveStreams, videoVars, timerVars, run, appVars, removedAny,
                 pollsFailed, staleUpTo>>
  /\ UNCHANGED logVars

\* the callbacks explored: MaxAttempts of them and, in a long run, those without
\* a result of a scanner whose decoder has delivered no text, past HelpThreshold
CallbackExplored(v) ==
  \/ callbacks < MaxAttempts
  \/ longRun /\ v \notin Values /\ firstSeen = <<>> /\ callbacks < HelpThreshold + 1

DecodeCallback(v) ==
  /\ decodeLoops > 0
  /\ CallbackExplored(v)
  /\ callbacks' = callbacks + 1
  /\ IF ~isMounted
       THEN UNCHANGED <<scanAttempts, scannedCodes>>
       ELSE /\ scanAttempts' = NextAttempt(scanAttempts)
            /\ scannedCodes' = CallbackCodes(scannedCodes, v)
  /\ firstSeen' = IF v \notin Values \/ v \in {firstSeen[k] : k \in DOMAIN firstSeen}
                    THEN firstSeen ELSE firstSeen \o <<v>>
  /\ UNCHANGED <<envVars, refVars, isScanning, error, hasPermission, videoReady, cameraStatus,
                 decodeLoops, liveStreams, videoVars, timerVars, run, appVars, removedAny,
                 pollsFailed, staleUpTo>>
  /\ \E c \in CallbackClosures :
       scanLines' = IF logged /\ isMounted /\ v \notin Values /\ c % LogPeriod = 0
                      THEN scanLines + 1 ELSE scanLines
  /\ UNCHANGED <<retryClosures, runClosure, scanClosures, loopClosures>>

\* a filter that drops the first element whatever the index
RemoveFirst(prev, index) ==
  [k \in 1 .. (Len(prev) - 1) |-> prev[k + 1]]

\* prev.filter((_, i) => i !== index), index counted from 1 here: the
\* positions other than index are kept, in their order
RemoveAt(prev, index) ==
  IF index \in 1 .. Len(prev)
    THEN [j \in 1 .. (Len(prev) - 1) |-> IF j < index THEN prev[j] ELSE prev[j + 1]]
    ELSE prev

\* removeScannedCode(index): the X button of a listed code
RemoveScannedCode(index) ==
  /\ isMounted
  /\ index \in 1 .. Len(scannedCodes)
  /\ scannedCodes' = RemoveAt(scannedCodes, index)
  /\ removedAny' = TRUE
  /\ UNCHANGED <<envVars, refVars, isScanning, error, hasPermission, scanAttempts, videoReady,
                 cameraStatus, decodeLoops, liveStreams, videoVars, timerVars, run, appVars,
                 firstSeen, callbacks, pollsFailed, staleUpTo>>
  /\ UNCHANGED logVars

\* ---- the cleanup function of the mount effect
UnmountEffect ==
  /\ isMounted' = FALSE
  /\ initTimer' = FALSE
  /\ Cleanup(FALSE)
  /\ UNCHANGED <<envVars, retryCount, retryTimers, scanTimers, histVars>>
  /\ loopClosures' = <<>>
  /\ UNCHANGED <<retryClosures, runClosure, scanClosures, scanLines>>

\* the X button: App.handleCloseScanner, and the scanner is unmounted
CloseScanner ==
  /\ isMounted
  /\ showScanner' = FALSE
  /\ UNCHANGED <<showResult, scanResults>>
  /\ UnmountEffect

\* a Done handler that reports the list whatever its length
FinishScanningAlways ==
  /\ isMounted
  /\ scanResults' = scannedCodes
  /\ showScanner' = FALSE
  /\ showResult' = TRUE
  /\ UnmountEffect

\* the Done button: handleFinishScanning, App.handleScan, and the scanner is unmounted
FinishScanning ==
  /\ isMounted
  /\ Len(scannedCodes) > 0
  /\ scanResults' = scannedCodes
  /\ showScanner' = FALSE
  /\ showResult' = TRUE
  /\ UnmountEffect

\* ---- the surface itself
\* autoplay: a loaded surface starts playing by itself
VideoAutoplays ==
  /\ VideoHasLiveSource /\ videoDims /\ videoPaused
  /\ videoPaused' = FALSE
  /\ UNCHANGED <<envVars, refVars, stateVars, decodeLoops, liveStreams, videoSrc, videoDims,
                 timerVars, run, appVars, histVars, staleUpTo>>
  /\ UNCHANGED logVars

NextWith(counted) ==
  \/ InitTimerFire
  \/ RetryTimerFire
  \/ RetryScanning
  \/ \E r \in Runs : RequestFails(r)
  \/ \E r \in Runs : RequestSucceeds(r)
  \/ VideoErrorEvent
  \/ \E r \in Runs : VideoWaitTimeout(r)
  \/ \E r \in Runs : PlaySucceeds(r)
  \/ \E r \in Runs : PlayFails(r)
  \/ \E r \in Runs : PollTimerFire(r, counted)
  \/ ScanTimerFire
  \/ \E v \in Values \cup {NoResult, DecodeFault} : DecodeCallback(v)
  \/ \E index \in 1 .. MaxAttempts : RemoveScannedCode(index)
  \/ CloseScanner
  \/ FinishScanning
  \/ VideoLoadsData
  \/ VideoAutoplays

Next == NextWith(FALSE)

Spec == Init /\ [][Next]_vars

\* the same program with its scheduling: a timer that is set fires, a camera
\* request settles, a surface with a live stream loads its data and plays, a
\* bounded wait expires and play() settles.  The user's clicks and the
\* decoder's callbacks are not forced.
Fairness ==
  /\ WF_vars(InitTimerFire)
  /\ WF_vars(RetryTimerFire)
  /\ WF_vars(ScanTimerFire)
  /\ WF_vars(VideoLoadsData)
  /\ WF_vars(VideoAutoplays)
  /\ \A r \in Runs : WF_vars(RequestFails(r) \/ RequestSucceeds(r))
  /\ \A r \in Runs : WF_vars(VideoWaitTimeout(r))
  /\ \A r \in Runs : WF_vars(PlaySucceeds(r) \/ PlayFails(r))
  /\ \A r \in Runs : WF_vars(PollTimerFire(r, FALSE))

FairSpec == Init /\ [][Next]_vars /\ Fairness

\* ---- App: the scanner is opened again (part_000)

\* A run of an instance that was unmounted, still awaiting when the next
\* instance is mounted.  It goes on in the closure of its own instance, whose
\* isMountedRef stays false: a request that is rejected is followed by the next
\* profile's (lines 325-336), a stream that is granted is stopped (342-345), a
\* surface wait or play() that settles returns (432, 471, 496), and a poll sets
\* nothing.  No step of it touches the camera's granted streams or the new
\* instance, and it is not followed further.
OrphanRun == [pc |-> "orphaned", i |-> 0, strat |-> 0]

\* a mount that hands the codes of the instance before to the new one
MountScannerKeepingCodes ==
  /\ isMounted' = TRUE /\ isInitialized' = FALSE /\ retryCount' = 0
  /\ streamRef' = NoStream /\ codeReaderRef' = FALSE
  /\ isScanning' = FALSE /\ error' = "" /\ hasPermission' = "null"
  /\ scannedCodes' = scannedCodes /\ scanAttempts' = 0 /\ videoReady' = FALSE
  /\ cameraStatus' = "initializing"
  /\ decodeLoops' = 0
  /\ videoSrc' = NoStream /\ videoDims' = FALSE /\ videoPaused' = TRUE
  /\ initTimer' = TRUE /\ retryTimers' = 0 /\ scanTimers' = 0
  /\ run' = [r \in Runs |-> IF InFlight(run[r]) THEN OrphanRun ELSE run[r]]
  /\ firstSeen' = <<>> /\ removedAny' = FALSE
  /\ retryClosures' = <<>> /\ scanClosures' = <<>> /\ loopClosures' = <<>>
  /\ UNCHANGED <<envVars, liveStreams, callbacks, pollsFailed, staleUpTo, runClosure, scanLines>>

\* {showScanner && <BarcodeScanner .../>}: a new instance of the component is
\* mounted, with fresh state, refs and <video>, and its mount effect sets the
\* 100 ms timer.  The timers of the instance before it test its isMountedRef
\* when they fire and call nothing (lines 482, 604); they and its runs stay
\* behind.  The histories of the codes start again with the instance.
MountScanner ==
  /\ isMounted' = TRUE /\ isInitialized' = FALSE /\ retryCount' = 0
  /\ streamRef' = NoStream /\ codeReaderRef' = FALSE
  /\ isScanning' = FALSE /\ error' = "" /\ hasPermission' = "null"
  /\ scannedCodes' = <<>> /\ scanAttempts' = 0 /\ videoReady' = FALSE
  /\ cameraStatus' = "initializing"
  /\ decodeLoops' = 0
  /\ videoSrc' = NoStream /\ videoDims' = FALSE /\ videoPaused' = TRUE
  /\ initTimer' = TRUE /\ retryTimers' = 0 /\ scanTimers' = 0
  /\ run' = [r \in Runs |-> IF InFlight(run[r]) THEN OrphanRun ELSE run[r]]
  /\ firstSeen' = <<>> /\ removedAny' = FALSE
  /\ retryClosures' = <<>> /\ scanClosures' = <<>> /\ loopClosures' = <<>>
  /\ UNCHANGED <<envVars, liveStreams, callbacks, pollsFailed, staleUpTo, runClosure, scanLines>>

\* handleGetStarted: a Start Scanning button of the page.  The handler tests
\* nothing; setShowScanner(true) while the scanner is shown changes no state.
\* The overlays cover the buttons for the pointer only: they take no focus
\* and the page behind them stays in the tab order.
GetStarted ==
  /\ ~showScanner
  /\ showScanner' = TRUE
  /\ UNCHANGED <<showResult, scanResults>>
  /\ MountScanner

\* handleScanAgain: the Scan Again button of the result view; a scanner that
\* is shown stays as it is
ScanAgain ==
  /\ showResult
  /\ showResult' = FALSE /\ scanResults' = <<>> /\ showScanner' = TRUE
  /\ IF showScanner
       THEN UNCHANGED <<envVars, refVars, stateVars, decodeLoops, liveStreams, videoVars,
                        timerVars, run, histVars, staleUpTo, logVars>>
       ELSE MountScanner

\* a close of the result view that keeps the stored results
CloseResultKeepingResults ==
  /\ showResult
  /\ showResult' = FALSE /\ scanResults' = scanResults
  /\ UNCHANGED <<envVars, refVars, stateVars, decodeLoops, liveStreams, videoVars, timerVars,
                 run, showScanner, histVars, staleUpTo, logVars>>

\* handleCloseResult: the result view is closed
CloseResult ==
  /\ showResult
  /\ showResult' = FALSE /\ scanResults' = <<>>
  /\ UNCHANGED <<envVars, refVars, stateVars, decodeLoops, liveStreams, videoVars, timerVars,
                 run, showScanner, histVars, staleUpTo, logVars>>

AppNext ==
  \/ Next
  \/ GetStarted
  \/ ScanAgain
  \/ CloseResult

\* the scanner within the App: it can be closed and opened again
AppSpec == Init /\ [][AppNext]_vars

\* the same program with a decoder that finds nothing followed past the thresholds
HintSpec == InitWith(TRUE, FALSE) /\ [][Next]_vars

\* the same program with the closures and the debug lines recorded
LogSpec == InitWith(FALSE, TRUE) /\ [][Next]_vars

\* the same program with the failed readiness polls recorded
PollNext == NextWith(TRUE)

PollSpec == Init /\ [][PollNext]_vars

\* ---- removeScannedCode on lists of up to MaxAttempts codes

\* the texts of three labels in view
Codes == Values \cup {"789"}

\* the lists setScannedCodes can hold: texts in the order of their first
\* delivery, none twice (lines 533-539), at most one per callback
CodeLists ==
  UNION {{s \in [1 .. n -> Codes] : \A a, b \in 1 .. n : a # b => s[a] # s[b]} :
           n \in 0 .. MaxAttempts}

\* a scanner that is scanning, after callbacks that delivered the listed codes
RemoveInit ==
  /\ secureContext = TRUE /\ hasMediaDevices = TRUE /\ syncFlush = TRUE
  /\ longRun = FALSE /\ logged = FALSE /\ playTimers = 0
  /\ httpReq = NoRequest /\ httpRes = NoResponse
  /\ isMounted = TRUE /\ isInitialized = TRUE /\ retryCount = 0
  /\ streamRef = 1 /\ codeReaderRef = TRUE
  /\ isScanning = TRUE /\ error = "" /\ hasPermission = "true"
  /\ scannedCodes \in CodeLists
  /\ scanAttempts \in Len(scannedCodes) .. MaxAttempts
  /\ videoReady = TRUE /\ cameraStatus = "ready"
  /\ decodeLoops = 1 /\ liveStreams = {1}
  /\ videoSrc = 1 /\ videoDims = TRUE /\ videoPaused = FALSE
  /\ initTimer = FALSE /\ retryTimers = 0 /\ scanTimers = 0
  /\ run = [r \in Runs |-> IF r = 1 THEN DoneRun ELSE IdleRun]
  /\ showScanner = TRUE /\ showResult = FALSE /\ scanResults = <<>>
  /\ firstSeen = scannedCodes /\ removedAny = FALSE /\ callbacks = scanAttempts
  /\ pollsFailed = 0 /\ staleUpTo = 0
  /\ retryClosures = <<>> /\ runClosure = [r \in Runs |-> 0]
  /\ scanClosures = <<>> /\ loopClosures = <<>> /\ scanLines = 0

RemoveNext == \E index \in 1 .. MaxAttempts : RemoveScannedCode(index)

RemoveSpec == RemoveInit /\ [][RemoveNext]_vars

\* ==== src/components/BarcodeScanner.tsx: the scanner whose mount effect calls
\* initializeScanner at once, with one camera request per run, a play-retry
\* timer and an onLoadedData handler that sets videoReady.  retryCount counts
\* the retry clicks (the component keeps no count).  The decode callbacks and
\* the Done and remove handlers are left out: none of them touches videoReady,
\* the stream or a timer.

\* the retry clicks followed
MaxClicks == 3

AwaitingRun == [pc |-> "requesting", i |-> 0, strat |-> 0]

\* what no handler of this part changes
tsxFixed == <<secureContext, hasMediaDevices, syncFlush, longRun, logged, httpReq, httpRes,
              scannedCodes,
              scanAttempts, cameraStatus, initTimer, histVars, logVars>>

\* the state after the mount effect has run initializeScanner up to its await
TsxInit ==
  /\ secureContext = TRUE /\ hasMediaDevices = TRUE /\ syncFlush \in BOOLEAN
  /\ longRun = FALSE /\ logged = FALSE /\ playTimers = 0
  /\ httpReq = NoRequest /\ httpRes = NoResponse
  /\ isMounted = TRUE /\ isInitialized = TRUE /\ retryCount = 0
  /\ streamRef = NoStream /\ codeReaderRef = TRUE
  /\ isScanning = FALSE /\ error = "" /\ hasPermission = "null"
  /\ scannedCodes = <<>> /\ scanAttempts = 0 /\ videoReady = FALSE
  /\ cameraStatus = "initializing"
  /\ decodeLoops = 0 /\ liveStreams = {}
  /\ videoSrc = NoStream /\ videoDims = FALSE /\ videoPaused = TRUE
  /\ initTimer = FALSE /\ retryTimers = 0 /\ scanTimers = 0
  /\ run = [r \in Runs |-> IF r = 1 THEN AwaitingRun ELSE IdleRun]
  /\ showScanner = TRUE /\ showResult = FALSE /\ scanResults = <<>>
  /\ firstSeen = <<>> /\ removedAny = FALSE /\ callbacks = 0 /\ pollsFailed = 0 /\ staleUpTo = 0
  /\ retryClosures = <<>> /\ runClosure = [r \in Runs |-> 0]
  /\ scanClosures = <<>> /\ loopClosures = <<>> /\ scanLines = 0

\* cleanup() (lines 241-275); scanIntervalRef is never set
TsxCleanup(mounted) ==
  /\ isInitialized' = FALSE
  /\ isScanning' = IF mounted THEN FALSE ELSE isScanning
  /\ videoReady' = IF mounted THEN FALSE ELSE videoReady
  /\ codeReaderRef' = FALSE
  /\ decodeLoops' = 0
  /\ liveStreams' = liveStreams \ {streamRef}
  /\ streamRef' = NoStream
  /\ IF VideoRefPresent
       THEN videoSrc' = NoStream /\ videoDims' = FALSE /\ videoPaused' = TRUE
       ELSE UNCHANGED videoVars
  /\ staleUpTo' = Cardinality(Started)

\* the catch block of initializeScanner (lines 164-173)
TsxCatch ==
  IF ~isMounted
    THEN UNCHANGED <<isInitialized, hasPermission, error, videoVars>>
    ELSE /\ isInitialized' = FALSE
         /\ hasPermission' = "false"
         /\ error' = "camera"
         \* the <video> is no longer rendered
         /\ videoSrc' = NoStream /\ videoDims' = FALSE /\ videoPaused' = TRUE

\* retryScanning() (lines 287-294): a click on a rendered retry button (381-390, 478-486)
TsxRetryScanning ==
  /\ isMounted /\ (hasPermission = "false" \/ error # "")
  /\ retryCount < MaxClicks
  /\ retryCount' = retryCount + 1
  /\ TsxCleanup(TRUE)
  /\ retryTimers' = retryTimers + 1
  /\ UNCHANGED <<tsxFixed, playTimers, isMounted, error, hasPermission, scanTimers, run, appVars>>

\* the 1000 ms timer of retryScanning: initializeScanner up to its await
TsxRetryTimerFire ==
  /\ retryTimers > 0
  /\ retryTimers' = retryTimers - 1
  /\ IF isMounted /\ ~isInitialized /\ NextRun \in Runs
       THEN /\ isInitialized' = TRUE
            /\ error' = ""
            /\ codeReaderRef' = TRUE /\ decodeLoops' = 0
            /\ run' = [run EXCEPT ![NextRun] = AwaitingRun]
       ELSE UNCHANGED <<isInitialized, error, codeReaderRef, decodeLoops, run>>
  /\ UNCHANGED <<tsxFixed, playTimers, isMounted, retryCount, streamRef, isScanning,
                 hasPermission, videoReady, liveStreams, videoVars, scanTimers, appVars,
                 staleUpTo>>

\* getUserMedia of run r is rejected
TsxRequestFails(r) ==
  /\ run[r].pc = "requesting"
  /\ run' = [run EXCEPT ![r] = DoneRun]
  /\ TsxCatch
  /\ UNCHANGED <<tsxFixed, playTimers, isMounted, retryCount, streamRef, codeReaderRef,
                 isScanning, videoReady, decodeLoops, liveStreams, timerVars, appVars, staleUpTo>>

\* getUserMedia of run r is granted (lines 67-82)
TsxRequestSucceeds(r) ==
  /\ run[r].pc = "requesting"
  /\ IF ~isMounted
       THEN /\ run' = [run EXCEPT ![r] = ReleasedRun]
            /\ UNCHANGED <<streamRef, liveStreams, hasPermission, videoVars>>
       ELSE /\ streamRef' = r
            /\ liveStreams' = liveStreams \cup {r}
            /\ hasPermission' = "true"
            /\ IF syncFlush \/ VideoRefPresent
                 THEN /\ videoSrc' = r /\ videoDims' = FALSE /\ videoPaused' = TRUE
                      /\ run' = [run EXCEPT ![r] = [pc |-> "waitVideo", i |-> 0, strat |-> 0]]
                 ELSE /\ UNCHANGED videoVars
                      /\ run' = [run EXCEPT ![r] = DoneRun]
  /\ UNCHANGED <<tsxFixed, playTimers, isMounted, isInitialized, retryCount, codeReaderRef,
                 isScanning, error, videoReady, decodeLoops, timerVars, appVars, staleUpTo>>

\* the surface has its first frame: onLoadedData (lines 414-417) and the
\* listeners of every run waiting on it (lines 88-128), which go on to play()
TsxVideoLoadsData ==
  /\ isMounted /\ VideoRefPresent /\ VideoHasLiveSource /\ ~videoDims
  /\ videoDims' = TRUE
  /\ videoReady' = TRUE
  /\ run' = [r \in Runs |-> IF run[r].pc = "waitVideo"
                               THEN [pc |-> "playing", i |-> 0, strat |-> 1] ELSE run[r]]
  /\ UNCHANGED <<tsxFixed, playTimers, refVars, isScanning, error, hasPermission, decodeLoops,
                 liveStreams, videoSrc, videoPaused, timerVars, appVars, staleUpTo>>

\* the surface reports an error: every run waiting on it rejects into the catch
TsxVideoErrorEvent ==
  /\ VideoRefPresent /\ videoSrc # NoStream
  /\ \E r \in Runs : run[r].pc = "waitVideo"
  /\ run' = [r \in Runs |-> IF run[r].pc = "waitVideo" THEN DoneRun ELSE run[r]]
  /\ TsxCatch
  /\ UNCHANGED <<tsxFixed, playTimers, isMounted, retryCount, streamRef, codeReaderRef,
                 isScanning, videoReady, decodeLoops, liveStreams, timerVars, appVars, staleUpTo>>

\* lines 152-162 after play(): setIsScanning and the 1000 ms start timer
TsxAfterPlay(r) ==
  /\ run' = [run EXCEPT ![r] = DoneRun]
  /\ isScanning' = SetState(TRUE, isScanning)
  /\ scanTimers' = IF isMounted THEN scanTimers + 1 ELSE scanTimers

\* video.play() of run r resolves (lines 131-134)
TsxPlaySucceeds(r) ==
  /\ run[r].pc = "playing"
  /\ VideoHasLiveSource /\ videoDims
  /\ videoPaused' = FALSE
  /\ videoReady' = SetState(TRUE, videoReady)
  /\ TsxAfterPlay(r)
  /\ UNCHANGED <<tsxFixed, playTimers, refVars, error, hasPermission, decodeLoops, liveStreams,
                 videoSrc, videoDims, retryTimers, appVars, staleUpTo>>

\* video.play() of run r rejects: the play-retry timer is set (lines 135-150)
TsxPlayFails(r) ==
  /\ run[r].pc = "playing"
  /\ playTimers' = playTimers + 1
  /\ TsxAfterPlay(r)
  /\ UNCHANGED <<tsxFixed, refVars, error, hasPermission, videoReady, decodeLoops, liveStreams,
                 videoVars, retryTimers, appVars, staleUpTo>>

\* the 1000 ms play-retry timer (lines 138-149): nothing when the surface
\* plays; otherwise play() again, and videoReady is set when it resolves and
\* when it rejects.  A play() that never settles sets nothing.
TsxPlayTimerFire ==
  /\ playTimers > 0
  /\ playTimers' = playTimers - 1
  /\ IF VideoRefPresent /\ ~videoPaused
       THEN UNCHANGED <<videoReady, videoPaused>>
       ELSE \E outcome \in {"resolved", "rejected", "pending"} :
              /\ outcome = "resolved" => VideoRefPresent /\ VideoHasLiveSource /\ videoDims
              /\ videoPaused' = IF outcome = "resolved" THEN FALSE ELSE videoPaused
              /\ videoReady' = IF outcome # "pending"
                                 THEN SetState(TRUE, videoReady) ELSE videoReady
  /\ UNCHANGED <<tsxFixed, refVars, isScanning, error, hasPermission, decodeLoops, liveStreams,
                 videoSrc, videoDims, retryTimers, scanTimers, run, appVars, staleUpTo>>

\* the 1000 ms start timer (lines 158-162) and startBarcodeScanning (176-239)
TsxScanTimerFire ==
  /\ scanTimers > 0
  /\ scanTimers' = scanTimers - 1
  /\ decodeLoops' = IF isMounted /\ codeReaderRef /\ VideoRefPresent
                      THEN decodeLoops + 1 ELSE decodeLoops
  /\ UNCHANGED <<tsxFixed, playTimers, refVars, isScanning, error, hasPermission, videoReady,
                 liveStreams, videoVars, initTimer, retryTimers, run, appVars, staleUpTo>>

\* the X button: App.handleCloseScanner, and the unmount effect (lines 34-37)
TsxCloseScanner ==
  /\ isMounted
  /\ isMounted' = FALSE
  /\ showScanner' = FALSE
  /\ TsxCleanup(FALSE)
  /\ UNCHANGED <<tsxFixed, playTimers, retryCount, error, hasPermission, timerVars, run,
                 showResult, scanResults>>

TsxNext ==
  \/ TsxRetryScanning
  \/ TsxRetryTimerFire
  \/ \E r \in Runs : TsxRequestFails(r)
  \/ \E r \in Runs : TsxRequestSucceeds(r)
  \/ TsxVideoLoadsData
  \/ TsxVideoErrorEvent
  \/ VideoAutoplays
  \/ \E r \in Runs : TsxPlaySucceeds(r)
  \/ \E r \in Runs : TsxPlayFails(r)
  \/ TsxPlayTimerFire
  \/ TsxScanTimerFire
  \/ TsxCloseScanner

TsxSpec == TsxInit /\ [][TsxNext]_vars

\* ==== the HTTP barcode function (part_000, lines 1-18)

\* JavaScript values as JSON can deliver them
Undefined == [t |-> "undefined", b |-> FALSE, n |-> 0, s |-> ""]
Null == [t |-> "null", b |-> FALSE, n |-> 0, s |-> ""]
Bool(b) == [t |-> "boolean", b |-> b, n |-> 0, s |-> ""]
Num(n) == [t |-> "number", b |-> FALSE, n |-> n, s |-> ""]
Str(s) == [t |-> "string", b |-> FALSE, n |-> 0, s |-> s]

\* the scalar values a barcode field is given; Undefined: the field is missing
BarcodeValues ==
  {Undefined, Null, Bool(FALSE), Bool(TRUE)} \cup {Num(n) : n \in {-1, 0, 7, 42, 123}}
    \cup {Str(s) : s \in {"", "0", "123", "456", "false"}}

\* req.body: missing, null, a scalar (a body that is not a JSON object), or an
\* object with its barcode field and possibly another field
Bodies ==
  {[kind |-> "scalar", val |-> v, barcode |-> Undefined, other |-> FALSE] :
     v \in {Undefined, Null, Str(""), Str("123"), Num(0), Num(7), Bool(TRUE)}}
    \cup {[kind |-> "object", val |-> Undefined, barcode |-> v, other |-> o] :
            v \in BarcodeValues, o \in BOOLEAN}

Requests == {[method |-> m, body |-> b] : m \in {"GET", "POST"}, b \in Bodies}

\* !v
Falsy(v) ==
  \/ v.t \in {"undefined", "null"}
  \/ v.t = "boolean" /\ ~v.b
  \/ v.t = "number" /\ v.n = 0
  \/ v.t = "string" /\ v.s = ""

Digit(d) == <<"0", "1", "2", "3", "4", "5", "6", "7", "8", "9">>[d + 1]

RECURSIVE Decimal(_)
Decimal(n) == IF n < 10 THEN Digit(n) ELSE Decimal(n \div 10) \o Digit(n % 10)

\* `${v}`: the string conversion of a template literal
TemplateText(v) ==
  CASE v.t = "undefined" -> "undefined"
    [] v.t = "null" -> "null"
    [] v.t = "boolean" -> (IF v.b THEN "true" ELSE "false")
    [] v.t = "number" -> (IF v.n < 0 THEN "-" \o Decimal(0 - v.n) ELSE Decimal(v.n))
    [] v.t = "string" -> v.s

\* !body
BodyFalsy(body) == body.kind = "scalar" /\ Falsy(body.val)

\* body.barcode: a property read on a scalar finds nothing
BarcodeOf(body) == IF body.kind = "object" THEN body.barcode ELSE Undefined

\* a handler that tests only that the body is there
RespondUnchecked(req, res) ==
  IF BodyFalsy(req.body)
    THEN [sets |-> res.sets + 1, status |-> 400, body |-> "Please pass barcode in request body"]
    ELSE [sets |-> res.sets + 1, status |-> 200,
          body |-> "Received barcode: " \o TemplateText(BarcodeOf(req.body))]

\* the function: context.res is assigned on one of its two paths
Respond(req, res) ==
  IF BodyFalsy(req.body) \/ Falsy(BarcodeOf(req.body))
    THEN [sets |-> res.sets + 1, status |-> 400, body |-> "Please pass barcode in request body"]
    ELSE [sets |-> res.sets + 1, status |-> 200,
          body |-> "Received barcode: " \o TemplateText(BarcodeOf(req.body))]

\* the scanner's variables play no part here
httpOther == <<secureContext, hasMediaDevices, syncFlush, longRun, logged, playTimers, refVars,
               stateVars, decodeLoops, liveStreams, videoVars, timerVars, run, appVars,
               histVars, staleUpTo, logVars>>

\* the host calls the function with a request and a fresh context
HttpRequest(req) ==
  /\ httpReq = NoRequest \/ httpRes.sets > 0
  /\ httpReq' = req
  /\ httpRes' = NoResponse
  /\ UNCHANGED httpOther

\* module.exports = async function (context, req): the function runs and returns
HttpFunction ==
  /\ httpReq # NoRequest /\ httpRes.sets = 0
  /\ httpRes' = Respond(httpReq, httpRes)
  /\ UNCHANGED <<httpReq, httpOther>>

HttpNext ==
  \/ \E req \in Requests : HttpRequest(req)
  \/ HttpFunction

HttpInit ==
  /\ secureContext = TRUE /\ hasMediaDevices = TRUE /\ syncFlush = TRUE
  /\ longRun = FALSE /\ logged = FALSE /\ playTimers = 0
  /\ httpReq = NoRequest /\ httpRes = NoResponse
  /\ isMounted = TRUE /\ isInitialized = FALSE /\ retryCount = 0
  /\ streamRef = NoStream /\ codeReaderRef = FALSE
  /\ isScanning = FALSE /\ error = "" /\ hasPermission = "null"
  /\ scannedCodes = <<>> /\ scanAttempts = 0 /\ videoReady = FALSE
  /\ cameraStatus = "initializing"
  /\ decodeLoops = 0 /\ liveStreams = {}
  /\ videoSrc = NoStream /\ videoDims = FALSE /\ videoPaused = TRUE
  /\ initTimer = TRUE /\ retryTimers = 0 /\ scanTimers = 0
  /\ run = [r \in Runs |-> IdleRun]
  /\ showScanner = TRUE /\ showResult = FALSE /\ scanResults = <<>>
  /\ firstSeen = <<>> /\ removedAny = FALSE /\ callbacks = 0 /\ pollsFailed = 0 /\ staleUpTo = 0
  /\ retryClosures = <<>> /\ runClosure = [r \in Runs |-> 0]
  /\ scanClosures = <<>> /\ loopClosures = <<>> /\ scanLines = 0

HttpSpec == HttpInit /\ [][HttpNext]_vars

\* ==== the claims

\* run r was in flight when cleanup() last ran: its start() has been stopped
Superseded(r) == InFlight(run[r]) /\ r <= staleUpTo

\* run r holds an outstanding getUserMedia request after this step that it did
\* not hold before: a camera request is made
RequestMade(r) == run'[r].pc = "requesting" /\ run'[r] # run[r]

NoDup(seq) == \A a, b \in 1 .. Len(seq) : a # b => seq[a] # seq[b]

\* C1: the constraint loop requests the profiles strictly in list order (a run
\* starts with profile 1 and only goes from profile i to profile i + 1, after
\* the request for i was rejected), it returns on the first request that
\* succeeds (the run whose stream was granted never requests again), and a run
\* that is requesting a profile holds no stream of an earlier profile.
C1_ProfilesInOrderFirstSuccess ==
  [][\A r \in Runs :
       /\ RequestMade(r) =>
            \/ run[r].pc = "idle" /\ run'[r].i = 1
            \/ run[r].pc = "requesting" /\ run'[r].i = run[r].i + 1
                 /\ run'[r].i <= NumProfiles /\ liveStreams' = liveStreams
       /\ run[r].pc \notin {"idle", "requesting"} => run'[r].pc # "requesting"
       /\ (run[r].pc = "requesting" /\ r \in liveStreams') =>
            run'[r].pc # "requesting" /\ streamRef' = r
       /\ run'[r].pc = "requesting" => r \notin liveStreams'
  ]_vars

\* the last profile is being requested: the three before it were rejected in turn
C1_Witness == \E r \in Runs : run[r].pc = "requesting" /\ run[r].i = NumProfiles

\* C2: scannedCodes never holds a text twice, and as long as the user removed
\* nothing it is exactly the distinct texts the decoder delivered, each once,
\* in the order each was first delivered.
C2_ResultSetDistinctFirstSeen ==
  /\ NoDup(scannedCodes)
  /\ ~removedAny => scannedCodes = firstSeen

\* results "123", "123", "456": three callbacks, two codes held in that order
C2_Witness ==
  /\ scannedCodes = <<"123", "456">> /\ scanAttempts = 3 /\ ~removedAny
  /\ firstSeen = <<"123", "456">>

C4_AtMostOneLiveStream == Cardinality(liveStreams) <= 1

\* C5: when a camera request of a run settles after the unmount, the stream it
\* may have brought is not live afterwards, streamRef and the video surface
\* are untouched and no state variable or guard changes.
C5_LateStreamReleased ==
  [][\A r \in Runs :
       (~isMounted /\ run[r].pc = "requesting" /\ run'[r].pc # "requesting") =>
          /\ r \notin liveStreams'
          /\ streamRef' = streamRef
          /\ videoVars' = videoVars
          /\ stateVars' = stateVars
          /\ isInitialized' = isInitialized
  ]_vars

\* a request was granted after the unmount and its stream released
C5_Witness == ~isMounted /\ \E r \in Runs : run[r].pc = "released"

\* C6: when the camera request or the readiness wait of a run that cleanup()
\* has superseded settles, nothing is stored or bound and no state changes.
\* Refuted: the catch block and line 347 consult isMountedRef only.
C6_SupersededResultIgnored ==
  [][\A r \in Runs :
       (isMounted /\ Superseded(r) /\ run[r].pc \in {"requesting", "waitVideo"}
          /\ run'[r] # run[r]) =>
          /\ streamRef' = streamRef
          /\ videoSrc' = videoSrc
          /\ cameraStatus' = cameraStatus
          /\ hasPermission' = hasPermission
          /\ error' = error
          /\ isInitialized' = isInitialized
  ]_vars

\* C7: in the Error state no stream is stored and none is live. Refuted: the
\* catch block does not release the stream granted earlier in the run.
C7_NoStreamInError ==
  SessionState = "Error" => streamRef = NoStream /\ liveStreams = {}

\* C8: after the unmount no state variable changes, no camera request is made
\* and no decoder is created or started. Refuted: the constraint loop goes on
\* to the next profile without consulting isMountedRef.
C8_NoEffectAfterDispose ==
  [][~isMounted =>
       /\ stateVars' = stateVars
       /\ \A r \in Runs : ~RequestMade(r)
       /\ codeReaderRef' = codeReaderRef
       /\ decodeLoops' = decodeLoops
  ]_vars

\* C9: the step that unmounts the scanner leaves the stored stream stopped and
\* streamRef empty, the decoder reset and dropped, and the video surface unbound.
C9_DisposeReleasesAll ==
  [][(isMounted /\ ~isMounted') =>
       /\ streamRef' = NoStream
       /\ streamRef \notin liveStreams'
       /\ codeReaderRef' = FALSE
       /\ decodeLoops' = 0
       /\ videoSrc' = NoStream
  ]_vars

\* unmounted by Done: codes were scanned, and the results are with the App
C9_Witness == ~isMounted /\ showResult /\ Len(scanResults) > 0

\* C10: a decoder is active only in the Scanning state. Refuted: a scan timer
\* set before cleanup() starts the loop after it.
C10_DecoderOnlyWhenScanning == decodeLoops > 0 => SessionState = "Scanning"

\* a step of retryScanning: the only caller of cleanup() on a mounted scanner
RetryStep == retryCount' = retryCount + 1

\* a step in which the mount timer or a retry timer calls initializeScanner()
StartCalled ==
  /\ isMounted /\ isMounted'
  /\ (initTimer /\ ~initTimer') \/ retryTimers' = retryTimers - 1

\* C11: cleanup() on a mounted scanner, from whatever state, ends with the
\* decoder reset and dropped, the stored stream stopped and streamRef empty,
\* the video surface unbound, isScanning and videoReady false, and the session
\* Idle with the initialization guard open.
C11_StopPostcondition ==
  [][RetryStep =>
       /\ codeReaderRef' = FALSE /\ decodeLoops' = 0
       /\ streamRef' = NoStream /\ streamRef \notin liveStreams'
       /\ videoSrc' = NoStream
       /\ ~isScanning' /\ ~videoReady'
       /\ SessionState' = "Idle" /\ ~isInitialized'
  ]_vars

\* a retry stopped a session whose decoder had been running; its delay is pending
C11_Witness ==
  /\ isMounted /\ retryCount > 0 /\ retryTimers > 0 /\ scanAttempts > 0
  /\ decodeLoops = 0 /\ scanTimers = 0 /\ cameraStatus = "initializing"

\* C12: initializeScanner() called while the session is past Idle (and not in
\* Error) issues no camera request, creates no decoder and changes no state
\* variable. Refuted: the guard is isInitializedRef, which the catch block of
\* a superseded run reopens while a newer run is Requesting or Loading.
C12_StartPastIdleNoOp ==
  [][(StartCalled /\ SessionState \notin {"Idle", "Error"}) =>
       /\ \A r \in Runs : ~RequestMade(r)
       /\ stateVars' = stateVars
       /\ codeReaderRef' = codeReaderRef /\ decodeLoops' = decodeLoops
       /\ isInitialized' = isInitialized
  ]_vars

\* the forward transitions of a start: initializeScanner sets 'requesting' from
\* Idle or Error; a grant sets 'granted' and, with the <video> present,
\* 'loading' in the same synchronous stretch; checkVideoReady sets 'ready';
\* startBarcodeScanning sets isScanning
ForwardTransitions ==
  {<<"Idle", "Requesting">>, <<"Error", "Requesting">>, <<"Requesting", "Granted">>,
   <<"Requesting", "Loading">>, <<"Granted", "Loading">>, <<"Loading", "Ready">>,
   <<"Ready", "Scanning">>}

\* C13: the session enters Requesting, Granted, Loading, Ready or Scanning only
\* from the state just before it in the order Idle/Error, Requesting, Granted,
\* Loading, Ready, Scanning; it never skips a state or moves backwards into
\* one of them. Refuted: the catch block of a superseded run sets Error while
\* the current run is Requesting, and its grant then moves Error to Loading.
C13_StatesInOrder ==
  [][(SessionState' # SessionState /\ SessionState' \notin {"Idle", "Error", "Disposed"})
       => <<SessionState, SessionState'>> \in ForwardTransitions]_vars

\* C14: the readiness polling is bounded: it gives up within the polls
\* explored and the session ends in Error. Refuted: a poll that finds the
\* surface not ready sets its timer again unconditionally, with no count.
C14_PollingBounded ==
  [][\A r \in Runs :
       (run[r].pc = "polling" /\ pollsFailed' = pollsFailed + 1 /\ pollsFailed' = MaxPolls)
          => run'[r].pc # "polling" /\ SessionState' = "Error"
  ]_vars

\* run r leaves the constraint loop with every request rejected
AllProfilesFailed(r) ==
  /\ run[r].pc = "requesting" /\ run[r].i = NumProfiles
  /\ run'[r].pc = "done" /\ r \notin liveStreams'

\* C15: when the request for the last profile is rejected on a mounted
\* scanner, the session is in Error showing the message of that last error,
\* the initialization guard is open, and no stream is held. Refuted in the
\* last part: a concurrent run started by a second retry may hold a stream.
C15_AllProfilesFail ==
  [][\A r \in Runs :
       (isMounted /\ AllProfilesFailed(r)) =>
          /\ SessionState' = "Error" /\ error' = CameraError(NumProfiles)
          /\ hasPermission' = "false" /\ ~isInitialized'
          /\ streamRef' = NoStream /\ liveStreams' = {}
  ]_vars

\* the environment checks of lines 273-280 fail
EnvironmentUnfit == ~secureContext \/ ~hasMediaDevices

\* C16: in a context that is not secure, or without the camera API, no camera
\* request is ever made, and every initializeScanner() that passes the guard
\* ends at once in Error with the message of the failed check (the secure
\* context is checked first), hasPermission false and the guard reopened.
C16_UnfitEnvironmentFailsAtOnce ==
  [][EnvironmentUnfit =>
       /\ \A r \in Runs : ~RequestMade(r)
       /\ (StartCalled /\ ~isInitialized) =>
            /\ SessionState' = "Error"
            /\ error' = (IF ~secureContext THEN "https" ELSE "noapi")
            /\ hasPermission' = "false" /\ ~isInitialized'
            /\ streamRef' = NoStream /\ liveStreams' = {}
  ]_vars

\* without the camera API, a retried start has failed again
C16_Witness ==
  /\ secureContext /\ ~hasMediaDevices /\ isMounted
  /\ retryCount > 0 /\ retryTimers = 0
  /\ SessionState = "Error" /\ error = "noapi" /\ run[2].pc = "done"

\* C17: while the session is in Error, no step other than a click on retry, the
\* start that a retry scheduled, or the unmount issues a camera request or
\* takes the session out of Error. Refuted: a start that a retry had begun is
\* still in its constraint loop when the catch block of the superseded start
\* sets Error, and it goes on requesting and leaves Error by itself.
C17_ErrorStaysUntilRetry ==
  [][(isMounted /\ isMounted' /\ SessionState = "Error" /\ ~RetryStep /\ ~StartCalled)
       => SessionState' = "Error" /\ \A r \in Runs : ~RequestMade(r)]_vars

\* run r makes the first camera request of a new attempt
AttemptBegins(r) == run[r].pc = "idle" /\ run'[r].pc # "idle"

\* C18: the retry counter only ever grows by one, in the step that sets one
\* retry timer; in that step cleanup() has completed (guard open, stream and
\* decoder released, session Idle) and no attempt begins; an attempt begins
\* only in a step in which the mount timer or a retry timer fires; and a retry
\* timer that fires after the unmount begins none and changes nothing else.
C18_RetryIsStopDelayStart ==
  [][/\ retryCount' # retryCount =>
          /\ retryCount' = retryCount + 1 /\ retryTimers' = retryTimers + 1
          /\ ~isInitialized' /\ streamRef' = NoStream /\ codeReaderRef' = FALSE
          /\ decodeLoops' = 0 /\ SessionState' = "Idle"
          /\ \A r \in Runs : ~AttemptBegins(r)
     /\ retryTimers' > retryTimers => retryCount' = retryCount + 1
     /\ \A r \in Runs : AttemptBegins(r) =>
          /\ isMounted
          /\ (initTimer /\ ~initTimer') \/ retryTimers' = retryTimers - 1
     /\ (~isMounted /\ retryTimers' = retryTimers - 1) =>
          /\ run' = run /\ stateVars' = stateVars /\ refVars' = refVars
          /\ liveStreams' = liveStreams /\ videoVars' = videoVars
  ]_vars

\* the scanner was unmounted during the delay of the one retry, the timer has
\* fired, and the second attempt never began
C18_Witness ==
  /\ ~isMounted /\ retryCount = 1 /\ retryTimers = 0
  /\ run[1].pc # "idle" /\ run[2].pc = "idle"

\* a step of the decode callback in the mounted component
CallbackStep == isMounted /\ callbacks' = callbacks + 1

\* a callback that brought no text the decoder had not delivered before: the
\* ones called without a result (nothing found, or a fault) are among them
CallbackWithoutNews == CallbackStep /\ firstSeen' = firstSeen

\* C19: a decode callback without a result does not stop the loop.  After it
\* the list of codes is what it was (no code having been removed by hand, the
\* codes held are the texts delivered so far), the session state, the error
\* text and the scanning flag are what they were, and the decoder still runs
\* the same loops; and whatever came before it, a callback that delivers a
\* text for the first time appends that text to the list.
C19_FaultKeepsLoop ==
  [][/\ CallbackWithoutNews =>
           (/\ (removedAny \/ scannedCodes' = scannedCodes)
            /\ SessionState' = SessionState
            /\ error' = error /\ isScanning' = isScanning /\ cameraStatus' = cameraStatus
            /\ codeReaderRef' = codeReaderRef
            /\ decodeLoops' = decodeLoops /\ decodeLoops' > 0)
     /\ (CallbackStep /\ firstSeen' # firstSeen) =>
           scannedCodes' = Append(scannedCodes, firstSeen'[Len(firstSeen')])]_vars

\* two callbacks, one text delivered once or twice: a callback without news has
\* run, the text is held, the session is Scanning with no error and the loop runs
C19_Witness ==
  /\ callbacks = 2 /\ Len(firstSeen) = 1 /\ scannedCodes = firstSeen
  /\ SessionState = "Scanning" /\ error = "" /\ decodeLoops > 0

\* C20: after N callbacks, none of which delivered a text, in the mounted
\* component, the attempt counter is N and the list of codes is empty; each
\* callback adds exactly one to the counter and leaves the session state as
\* it was, Scanning included.
C20_CounterCountsCallbacks ==
  [][/\ isMounted' => scanAttempts' = callbacks'
     /\ firstSeen' = <<>> => scannedCodes' = <<>>
     /\ CallbackStep =>
           (scanAttempts' = scanAttempts + 1 /\ SessionState' = SessionState)]_vars

\* MaxAttempts callbacks without a text in a Scanning session
C20_Witness ==
  /\ callbacks = MaxAttempts /\ firstSeen = <<>>
  /\ scanAttempts = MaxAttempts /\ scannedCodes = <<>>
  /\ SessionState = "Scanning" /\ decodeLoops > 0

\* the attempt counter passes one of the two thresholds in this step
ThresholdPassed ==
  \E t \in {HintThreshold, HelpThreshold} : scanAttempts <= t /\ scanAttempts' > t

\* C21: the decode loops end only in a cleanup (stop, retry or unmount), which
\* drops the decoder; the step in which the attempt counter passes 50 or 100,
\* with no code held, leaves everything but the counter as it was: session
\* state, flags, error, stream and camera, surface, timers, runs, the decoder
\* and its loops, which go on running.
C21_HintsCancelNothing ==
  [][/\ (decodeLoops' < decodeLoops) =>
           (decodeLoops' = 0 /\ ~codeReaderRef' /\ ~isInitialized' /\ streamRef' = NoStream)
     /\ (ThresholdPassed /\ Len(scannedCodes) = 0) =>
           (/\ HintShown'
            /\ SessionState' = SessionState
            /\ UNCHANGED <<refVars, isScanning, error, hasPermission, scannedCodes, videoReady,
                           cameraStatus, liveStreams, videoVars, timerVars, run, appVars>>
            /\ decodeLoops' = decodeLoops /\ decodeLoops' > 0)]_vars

\* both thresholds are passed in a Scanning session that holds no code, its
\* stream live and its loop running
C21_Witness ==
  /\ HintShown /\ HelpShown /\ scanAttempts = HelpThreshold + 1
  /\ SessionState = "Scanning" /\ error = "" /\ decodeLoops > 0
  /\ streamRef # NoStream /\ streamRef \in liveStreams /\ videoSrc = streamRef

\* onScan is called in this step: App.handleScan stores the results and shows them
OnScanFired == showResult' /\ ~showResult

\* C22: onScan fires only from a mounted scanner that holds at least one code,
\* it hands over the list as it stands, an ordered sequence without repeats, and
\* the scanner is unmounted in the same step, so that it fires at most once;
\* nothing else writes the reported results, and a Done with no code held
\* reports nothing.
C22_OnScanOnceWithResults ==
  [][/\ OnScanFired =>
           (/\ isMounted /\ ~isMounted'
            /\ Len(scannedCodes) > 0
            /\ scanResults' = scannedCodes
            /\ NoDup(scanResults'))
     /\ (scanResults' # scanResults) => OnScanFired
     /\ showResult => (showResult' /\ ~isMounted')]_vars

\* two codes were reported by a scanner that is now unmounted
C22_Witness ==
  /\ showResult /\ ~isMounted /\ ~showScanner
  /\ Len(scanResults) = 2 /\ scanResults = scannedCodes

\* the list grows in this step: a code is appended
CodeAppended == Len(scannedCodes') > Len(scannedCodes)

\* C23: a text is appended only while it is absent from the list, so the list
\* never holds a text twice; a text that was removed by hand is absent and is
\* appended again when the decoder delivers it again.
C23_AppendedOnlyWhileAbsent ==
  [][/\ CodeAppended =>
           (/\ scannedCodes' = Append(scannedCodes, scannedCodes'[Len(scannedCodes')])
            /\ ~Includes(scannedCodes, scannedCodes'[Len(scannedCodes')]))
     /\ NoDup(scannedCodes')]_vars

\* "123" was delivered, removed by hand, delivered again and appended again
C23_Witness ==
  /\ removedAny /\ firstSeen = <<"123">> /\ scannedCodes = <<"123">>
  /\ callbacks = 2 /\ isMounted

\* C23, refuted: every append is of a text the decoder delivers for the first
\* time, each text being appended at most once whatever was removed.
C23_AppendedAtMostOnce ==
  [][CodeAppended => firstSeen' # firstSeen]_vars

\* a new instance of the scanner is mounted in this step
MountStep == isMounted' /\ ~isMounted

\* the texts in seq
Texts(seq) == {seq[k] : k \in 1 .. Len(seq)}

\* App.handleScan stores a list of results in this step
ResultsStored == scanResults' # <<>> /\ scanResults' # scanResults

\* C24: an instance of the scanner that the App mounts after a close or after
\* Scan Again starts with an empty list, no stream, no decoder and a surface
\* with no source; every code it holds and every code it reports was
\* delivered by the decoder to this instance, and a stream it stores was
\* granted to a request of its own.
C24_SessionOwnsResultsAndStream ==
  [][/\ MountStep =>
           (/\ scannedCodes' = <<>> /\ scanAttempts' = 0
            /\ streamRef' = NoStream /\ videoSrc' = NoStream
            /\ ~codeReaderRef' /\ decodeLoops' = 0
            /\ \A r \in Runs : ~InFlight(run'[r]))
     /\ Texts(scannedCodes') \subseteq Texts(firstSeen')
     /\ ResultsStored => Texts(scanResults') \subseteq Texts(firstSeen)
     /\ (streamRef' # streamRef /\ streamRef' # NoStream) =>
           run[streamRef'].pc = "requesting"]_vars

\* a second instance, mounted after one that saw two callbacks, has reported
\* the one code it was delivered
C24_Witness ==
  /\ showResult /\ scanResults = <<"456">> /\ firstSeen = <<"456">>
  /\ callbacks = 3 /\ scanAttempts = 1
  /\ \E r \in Runs : run[r].pc = "orphaned"

\* the session enters Ready in this step
EntersReady == cameraStatus' = "ready" /\ cameraStatus # "ready"

\* the start-scanning timer is set in this step
ScanTimerSet == scanTimers' > scanTimers

\* C25: the session enters Ready only in a step after which the surface has its
\* dimensions and is not paused, with videoReady set in the same step; the
\* start-scanning timer is set only in such a step, one timer per step, and
\* every entry into Ready sets it.
C25_ReadyOnlyWhenSurfaceReady ==
  [][/\ EntersReady =>
           (VideoIsReady(videoDims', videoPaused') /\ videoReady' /\ ScanTimerSet)
     /\ ScanTimerSet =>
           (VideoIsReady(videoDims', videoPaused') /\ scanTimers' = scanTimers + 1)
     /\ (videoReady' /\ ~videoReady) => EntersReady]_vars

\* Ready was entered on a playing surface and the start-scanning timer is pending
C25_Witness ==
  /\ cameraStatus = "ready" /\ videoReady /\ scanTimers = 1 /\ ~isScanning
  /\ videoDims /\ ~videoPaused /\ isMounted

\* C26: no step lowers the attempt counter: not a callback, a removal, the
\* Done or X button, an error, nor a retry with its cleanup.
C26_AttemptsNeverDecrease ==
  [][scanAttempts' >= scanAttempts]_vars

\* the counter stands at MaxAttempts after a retry, a removal and an error
C26_Witness ==
  /\ scanAttempts = MaxAttempts /\ retryCount > 0 /\ removedAny
  /\ cameraStatus = "error" /\ isMounted

Requesting == {r \in Runs : run[r].pc = "requesting"}

\* C28: at most one run of the mounted scanner awaits getUserMedia.
C28_OneRequestOutstanding ==
  isMounted => Cardinality(Requesting) <= 1

\* C29: no camera request is made once the scanner is unmounted.
C29_NoRequestAfterDispose ==
  [][~isMounted => \A r \in Runs : ~RequestMade(r)]_vars

\* C30: the decoder in codeReaderRef runs at most one loop: decodeFromVideoDevice
\* is not called again on it before it is reset.
C30_OneDecodeLoop ==
  decodeLoops <= 1

\* a "Scanning active" line is appended to the debug text in this step
ScanLineAppended == scanLines' > scanLines

\* C27: a "Scanning active" line is appended only by a callback at which the
\* attempt count, before or after it, is a multiple of LogPeriod.
C27_ScanLineOncePerPeriod ==
  [][ScanLineAppended =>
       (scanAttempts % LogPeriod = 0 \/ scanAttempts' % LogPeriod = 0)]_vars

\* the list without its element at position index
Without(seq, index) == SubSeq(seq, 1, index - 1) \o SubSeq(seq, index + 1, Len(seq))

\* C33: removeScannedCode(i) with a valid i drops exactly position i and keeps
\* the rest in order, so the list stays duplicate-free and is one shorter; with
\* i out of range the filter returns the list as it is; the call changes
\* neither the attempt counter nor the stream or the decoder.
C33_RemoveExactlyOne ==
  [][/\ \A i \in 1 .. Len(scannedCodes) :
          RemoveAt(scannedCodes, i) = Without(scannedCodes, i)
     /\ \A i \in {0, Len(scannedCodes) + 1, Len(scannedCodes) + 2} :
          RemoveAt(scannedCodes, i) = scannedCodes
     /\ (scannedCodes' # scannedCodes =>
          /\ Len(scannedCodes') = Len(scannedCodes) - 1
          /\ NoDup(scannedCodes')
          /\ \E i \in 1 .. Len(scannedCodes) : scannedCodes' = Without(scannedCodes, i))
     /\ scanAttempts' = scanAttempts
     /\ streamRef' = streamRef /\ liveStreams' = liveStreams
     /\ codeReaderRef' = codeReaderRef /\ decodeLoops' = decodeLoops]_vars

\* the middle one of three codes was removed
C33_Witness ==
  /\ Len(firstSeen) = 3 /\ removedAny
  /\ scannedCodes = <<firstSeen[1], firstSeen[3]>>

\* C35: in the App the result view is shown exactly when the stored
\* scanResults is non-empty.
C35_ResultShownIffResults ==
  showResult <=> Len(scanResults) > 0

\* a second session has reported two codes to the App
C35_Witness ==
  /\ showResult /\ Len(scanResults) = 2 /\ ~showScanner
  /\ \E r \in Runs : run[r] = OrphanRun

\* C36: the scanner and the result view are never shown at the same time.
C36_NeverBothShown ==
  ~(showScanner /\ showResult)

\* cleanup() runs in this step: in retryScanning or in the unmount effect
CleanupRan == retryCount' > retryCount \/ (isMounted /\ ~isMounted')

\* C34: cleanup is idempotent: after every step in which cleanup runs, the
\* fields are those cleanup() computes, a second run of cleanup right then
\* (of retryScanning or of the unmount effect) would leave them as they are,
\* stop no track and reset no decoder; and the stream the first run stops
\* had not been stopped before.
C34_CleanupIdempotent ==
  [][CleanupRan =>
       LET once == CleanupOf(CleanupFields, isMounted')
           after == CleanupFields'
       IN  /\ after = [once EXCEPT !.stopped = {}, !.reset = FALSE]
           /\ once.stopped \subseteq liveStreams
           /\ \A n \in {isMounted', FALSE} :
                LET twice == CleanupOf(after, n)
                IN  twice.stopped = {} /\ ~twice.reset /\ twice = after]_vars

\* a retry click while the surface was loading and then the close button: the
\* first cleanup stopped the stream, the second found none
C34_Witness ==
  /\ ~isMounted /\ retryTimers = 1 /\ retryCount = 1 /\ staleUpTo = 1
  /\ streamRef = NoStream /\ liveStreams = {}
  /\ cameraStatus = "initializing" /\ hasPermission = "true"

\* C32: in components/BarcodeScanner.tsx, videoReady of the mounted scanner is
\* true only while a stream is held in streamRef.
C32_ReadyOnlyWithStream ==
  (isMounted /\ videoReady) => streamRef # NoStream

\* the request carries a barcode: an object body whose barcode field is
\* neither missing nor null, false, 0 or the empty string
CarriesBarcode(req) ==
  /\ req.body.kind = "object"
  /\ req.body.barcode \notin {Undefined, Null, Bool(FALSE), Num(0), Str("")}

\* C37: the HTTP function answers every request with exactly one response:
\* status 400 and no echo when the body is missing or its barcode field is
\* missing or falsy, otherwise status 200 and a body that ends with the text of
\* the received barcode.
C37_OneResponsePerRequest ==
  /\ (httpReq # NoRequest /\ httpRes.sets = 0) => ENABLED HttpFunction
  /\ httpRes.sets <= 1
  /\ httpRes.sets = 1 =>
       IF CarriesBarcode(httpReq)
         THEN /\ httpRes.status = 200
              /\ \E text \in {"true", "-1", "7", "42", "123", "0", "456", "false"} :
                   /\ httpRes.body = "Received barcode: " \o text
                   /\ httpReq.body.barcode \in {Str(text), Bool(text = "true")}
                         \cup {Num(n) : n \in {k \in -1 .. 123 : TemplateText(Num(k)) = text}}
         ELSE /\ httpRes.status = 400
              /\ httpRes.body = "Please pass barcode in request body"

\* a POST whose barcode is the number 42 was answered with its decimal text
C37_Witness ==
  /\ httpReq.method = "POST" /\ httpRes.sets = 1
  /\ httpReq.body.kind = "object" /\ httpReq.body.barcode = Num(42) /\ httpReq.body.other
  /\ httpRes.status = 200 /\ httpRes.body = "Received barcode: 42"

\* C31: under the scheduling of FairSpec, a mounted session that is
\* Requesting, Granted or Loading leaves these states: it reaches Scanning or
\* Error, or it is stopped (Idle again) or disposed.
C31_StartEventuallyFinishes ==
  (isMounted /\ cameraStatus \in {"requesting", "granted", "loading"})
    ~> (\/ SessionState \in {"Scanning", "Error", "Disposed"}
        \/ cameraStatus = "initializing")
====
